---- MODULE Spec2Model ----
(***************************************************************************)
(* Model of river_torch/regression/regressor.py: the two streaming         *)
(* adapters Regressor and RollingRegressor.  One adapter object is         *)
(* modelled; its class and constructor arguments are drawn in Init.  Every *)
(* handler (learn_one, predict_one) is one atomic action, computed as the  *)
(* sequential composition of its statements over a record `s` that holds   *)
(* the object's fields, the handler's locals and the exception raised so   *)
(* far (a statement is skipped once an exception is pending).              *)
(*                                                                         *)
(* The wrapped torch network and optimizer are opaque to the repository.   *)
(* They are modelled as a one-parameter network (weight w, accumulated     *)
(* gradient grad, the training flag) with a deterministic forward pass,    *)
(* and an optimizer that counts its steps.  A step of the training cycle   *)
(* can raise on request of the environment (the `f` input).                *)
(***************************************************************************)
EXTENDS Integers, Sequences, FiniteSets, TLC

VARIABLES kind, window_size, append_predict, net, optimizer, x_window,
          calls, last, hist

vars == <<kind, window_size, append_predict, net, optimizer, x_window,
          calls, last, hist>>

-----------------------------------------------------------------------------
(* Bounds of the model *)

MaxCalls == 3
MaxWidth == 2
MaxVal == 1
MaxWindow == 2
WMod == 3

NonNumeric == -1
Placeholder == 0

KeyNames == <<"a", "b", "c", "d">>

Numbers == 0 .. MaxVal
Values == Numbers \cup {NonNumeric}
Targets == Numbers \cup {NonNumeric}

\* A feature map (dict): its items in insertion order, each <<key, value>>.
\* The maps drawn: for every width n, one map per starting value v, whose
\* columns differ (v, v+1, ...), and one map whose last value is not a number.
FeatureMap(n, v) ==
    [i \in 1 .. n |->
        <<KeyNames[i],
          IF v = NonNumeric
          THEN (IF i = n THEN NonNumeric ELSE 0)
          ELSE (v + i - 1) % (MaxVal + 1)>>]

FeatureMaps == { FeatureMap(n, v) : n \in 1 .. MaxWidth, v \in Values }

\* The step of a call the environment makes raise: the builders (which run
\* only while the network is not built), the forward pass, the loss, the
\* backward pass.
Faults == {"none", "build", "forward", "loss", "backward"}
FaultsNow == IF net.built THEN Faults \ {"build"} ELSE Faults

\* The (target, fault) pairs of a learn_one call.  A raising step never reads
\* the value of the target, so the faults are drawn with one target only.
LearnArgs == { a \in Targets \X FaultsNow : a[2] # "none" => a[1] = 0 }

\* predict_one computes no loss and no gradient
PredictFaults == FaultsNow \ {"loss", "backward"}

-----------------------------------------------------------------------------
(* Python built-ins used by the handlers *)

\* len(x) of a dict
len(x) == Len(x)

\* list(x.values()) of a dict: the values in iteration order, keys dropped
values(x) == [i \in 1 .. Len(x) |-> x[i][2]]

RECURSIVE SumRow(_)
SumRow(r) == IF r = <<>> THEN 0 ELSE r[1] + SumRow(Tail(r))

RECURSIVE SumAll(_)
SumAll(t) == IF t = <<>> THEN 0 ELSE SumRow(t[1]) + SumAll(Tail(t))

IsNumericRow(r) == \A i \in 1 .. Len(r) : r[i] # NonNumeric

-----------------------------------------------------------------------------
(* Exceptions and the call log *)

Raise(s, e) == [s EXCEPT !.err = e]
Log(s, ev) == [s EXCEPT !.trace = Append(@, ev)]
Ok(s) == s.err = "none"

-----------------------------------------------------------------------------
(* The object before construction of the network *)

NoNet == [built |-> FALSE, n_features |-> 0, w |-> 0, grad |-> 0, training |-> FALSE]
NoOptimizer == [built |-> FALSE, steps |-> 0]

\* build_fn(n_features): a fresh torch module (training flag set, no gradient)
build_fn(n) == [built |-> TRUE, n_features |-> n, w |-> 0, grad |-> 0, training |-> TRUE]
\* optimizer_fn(net.parameters(), lr)
optimizer_fn == [built |-> TRUE, steps |-> 0]

\* DeepEstimator._init_net(n_features): builds the network and the optimizer;
\* a raising builder leaves the adapter as it was.
_init_net(s, n, f) ==
    IF ~Ok(s) THEN s
    ELSE IF f = "build" THEN Raise(Log(s, "init"), "BuildError")
    ELSE [Log(s, "init") EXCEPT !.net = build_fn(n),
                                !.optimizer = optimizer_fn,
                                !.n_init = @ + 1]

-----------------------------------------------------------------------------
(* river_torch.utils.river_compat converters *)

\* dict2tensor(x, device): 1 x F tensor, columns in the map's iteration order
dict2tensor(s, x) ==
    IF ~Ok(s) THEN s
    ELSE IF ~IsNumericRow(values(x)) THEN Raise(Log(s, "dict2tensor"), "TypeError")
    ELSE [Log(s, "dict2tensor") EXCEPT !.x = <<values(x)>>]

\* list2tensor(rows, device): N x F tensor of the rows
list2tensor(s, rows) ==
    IF ~Ok(s) THEN s
    ELSE IF \E i \in 1 .. Len(rows) : ~IsNumericRow(rows[i])
         THEN Raise(Log(s, "list2tensor"), "TypeError")
    ELSE IF \E i, j \in 1 .. Len(rows) : Len(rows[i]) # Len(rows[j])
         THEN Raise(Log(s, "list2tensor"), "ValueError")
    ELSE [Log(s, "list2tensor") EXCEPT !.x = rows]

\* scalar2tensor(y, device): 1-element tensor
scalar2tensor(s, y) ==
    IF ~Ok(s) THEN s
    ELSE IF y = NonNumeric THEN Raise(Log(s, "scalar2tensor"), "TypeError")
    ELSE [Log(s, "scalar2tensor") EXCEPT !.y = <<y>>]

-----------------------------------------------------------------------------
(* torch: the network and the optimizer.  Any of them on None raises. *)

\* self.net.train()
net_train(s) ==
    IF ~Ok(s) THEN s
    ELSE IF ~s.net.built THEN Raise(Log(s, "train_on_None"), "AttributeError")
    ELSE [Log(s, "train") EXCEPT !.net.training = TRUE]

\* self.net.eval()
net_eval(s) ==
    IF ~Ok(s) THEN s
    ELSE IF ~s.net.built THEN Raise(Log(s, "eval_on_None"), "AttributeError")
    ELSE [Log(s, "eval") EXCEPT !.net.training = FALSE]

\* self.optimizer.zero_grad()
zero_grad(s) ==
    IF ~Ok(s) THEN s
    ELSE IF ~s.optimizer.built THEN Raise(Log(s, "zero_grad_on_None"), "AttributeError")
    ELSE [Log(s, "zero_grad") EXCEPT !.net.grad = 0]

\* the value of the forward pass on tensor t
Forward(n, t) == (n.w + SumAll(t)) % WMod

\* self.net(x); calling None is a TypeError ('NoneType' object is not callable)
net_forward(s, f) ==
    IF ~Ok(s) THEN s
    ELSE IF ~s.net.built THEN Raise(Log(s, "forward_on_None"), "TypeError")
    ELSE LET s1 == [Log(s, "forward") EXCEPT
                       !.fwdIn = s.x,
                       !.fwdMode = IF s.net.training THEN "train" ELSE "eval"]
         IN  IF f = "forward" THEN Raise(s1, "ForwardError")
             ELSE IF \E i \in 1 .. Len(s.x) : Len(s.x[i]) # s.net.n_features
                  THEN Raise(s1, "ShapeError")
             ELSE [s1 EXCEPT !.y_pred = Forward(s.net, s.x)]

\* self.loss_fn(y_pred, y)
loss_fn(s, f) ==
    IF ~Ok(s) THEN s
    ELSE IF f = "loss" THEN Raise(Log(s, "loss"), "LossError")
    ELSE [Log(s, "loss") EXCEPT !.loss = s.y_pred - s.y[1], !.lossY = s.y]

\* loss.backward(): accumulates the gradient
backward(s, f) ==
    IF ~Ok(s) THEN s
    ELSE IF f = "backward" THEN Raise(Log(s, "backward"), "BackwardError")
    ELSE [Log(s, "backward") EXCEPT !.net.grad = @ + s.loss]

\* self.optimizer.step(): applies the accumulated gradient
optimizer_step(s) ==
    IF ~Ok(s) THEN s
    ELSE IF ~s.optimizer.built THEN Raise(Log(s, "step_on_None"), "AttributeError")
    ELSE [Log(s, "step") EXCEPT !.net.w = (@ - s.net.grad) % WMod,
                                !.optimizer.steps = @ + 1]

\* self.net(x).item()
item(s) == IF ~Ok(s) THEN s ELSE [s EXCEPT !.ret = s.y_pred]

\* return self
return_self(s) == IF ~Ok(s) THEN s ELSE [s EXCEPT !.retSelf = TRUE]

-----------------------------------------------------------------------------
(* class Regressor *)

\* Mutant: the optimizer step is taken even when an earlier step of the cycle
\* raised (as in a `finally`), and the exception is raised afterwards.
Mut_learn_one_step_always(s, f) ==
    LET s1 == zero_grad(s)
        s2 == net_forward(s1, f)
        s3 == loss_fn(s2, f)
        s4 == backward(s3, f)
    IN  Raise(optimizer_step([s4 EXCEPT !.err = "none"]), s4.err)

\* Mutant: the gradients are reset after the backward pass instead of before
\* the forward pass.
Mut_learn_one_zero_grad_late(s, f) ==
    LET s1 == net_forward(s, f)
        s2 == loss_fn(s1, f)
        s3 == backward(s2, f)
        s4 == zero_grad(s3)
    IN  optimizer_step(s4)

\* Regressor._learn_one(x, y)
_learn_one(s, f) ==
    LET s1 == zero_grad(s)
        s2 == net_forward(s1, f)
        s3 == loss_fn(s2, f)
        s4 == backward(s3, f)
    IN  optimizer_step(s4)

\* Mutant: the network is built again when the width of the call differs.
Mut_Regressor_learn_one_rebuild(s, x, y, f) ==
    LET s1 == IF ~s.net.built \/ s.net.n_features # len(x)
              THEN _init_net(s, len(x), f) ELSE s
        s2 == dict2tensor(s1, x)
        s3 == scalar2tensor(s2, y)
        s4 == net_train(s3)
    IN  return_self(_learn_one(s4, f))

\* Regressor.learn_one(x, y)
Regressor_learn_one(s, x, y, f) ==
    LET s1 == IF ~s.net.built THEN _init_net(s, len(x), f) ELSE s
        s2 == dict2tensor(s1, x)
        s3 == scalar2tensor(s2, y)
        s4 == net_train(s3)
    IN  return_self(_learn_one(s4, f))

\* Mutant: predict_one applies the gradient accumulated by the last training.
Mut_Regressor_predict_one_step(s, x, f) ==
    LET s1 == IF ~s.net.built THEN _init_net(s, len(x), f) ELSE s
        s2 == dict2tensor(s1, x)
        s3 == net_eval(s2)
    IN  optimizer_step(item(net_forward(s3, f)))

\* Mutant: predict_one does not switch the network to evaluation mode.
Mut_Regressor_predict_one_no_eval(s, x, f) ==
    LET s1 == IF ~s.net.built THEN _init_net(s, len(x), f) ELSE s
        s2 == dict2tensor(s1, x)
    IN  item(net_forward(s2, f))

\* Regressor.predict_one(x)
Regressor_predict_one(s, x, f) ==
    LET s1 == IF ~s.net.built THEN _init_net(s, len(x), f) ELSE s
        s2 == dict2tensor(s1, x)
        s3 == net_eval(s2)
    IN  item(net_forward(s3, f))

-----------------------------------------------------------------------------
(* class RollingRegressor *)

\* The container RollingDeepEstimator creates for self._x_window: a list that
\* is never trimmed, so that an append past window_size makes it longer.
buffer_append(w, row) == Append(w, row)

\* self._x_window.append(row)
window_append(s, row) ==
    IF ~Ok(s) THEN s ELSE [s EXCEPT !.x_window = buffer_append(@, row)]

\* x = copy.deepcopy(self._x_window); x.append(list(x.values())):
\* x is now the copied list, which has no attribute `values`
copy_append(s) ==
    IF ~Ok(s) THEN s
    ELSE Raise([Log(s, "deepcopy") EXCEPT !.x = s.x_window], "AttributeError")

\* return 0.0
return_placeholder(s) == IF ~Ok(s) THEN s ELSE [s EXCEPT !.ret = Placeholder]

\* Mutant: the network is invoked whenever the buffer is not over-full.
Mut_RollingRegressor_predict_one_le(s, x, f) ==
    LET s1 == IF ~s.net.built THEN _init_net(s, len(x), f) ELSE s
    IN  IF Len(s1.x_window) <= s1.window_size
        THEN LET s2 == IF s1.append_predict
                       THEN LET a == window_append(s1, values(x))
                            IN  list2tensor(a, a.x_window)
                       ELSE LET c == copy_append(s1)
                            IN  list2tensor(c, c.x)
                 s3 == net_eval(s2)
             IN  item(net_forward(s3, f))
        ELSE return_placeholder(s1)

\* Mutant: with append_predict the row is appended to a copy of the buffer.
Mut_RollingRegressor_predict_one_copy(s, x, f) ==
    LET s1 == IF ~s.net.built THEN _init_net(s, len(x), f) ELSE s
    IN  IF Len(s1.x_window) = s1.window_size
        THEN LET s2 == IF s1.append_predict
                       THEN list2tensor(s1, Append(s1.x_window, values(x)))
                       ELSE LET c == copy_append(s1)
                            IN  list2tensor(c, c.x)
                 s3 == net_eval(s2)
             IN  item(net_forward(s3, f))
        ELSE return_placeholder(s1)

\* Mutant: with append_predict the row is appended before the length is tested.
Mut_RollingRegressor_predict_one_append_first(s, x, f) ==
    LET s0 == IF ~s.net.built THEN _init_net(s, len(x), f) ELSE s
        s1 == IF s0.append_predict THEN window_append(s0, values(x)) ELSE s0
    IN  IF Len(s1.x_window) = s1.window_size
        THEN LET s2 == IF s1.append_predict
                       THEN list2tensor(s1, s1.x_window)
                       ELSE LET c == copy_append(s1)
                            IN  list2tensor(c, c.x)
                 s3 == net_eval(s2)
             IN  item(net_forward(s3, f))
        ELSE return_placeholder(s1)

\* RollingRegressor.predict_one(x)
RollingRegressor_predict_one(s, x, f) ==
    LET s1 == IF ~s.net.built THEN _init_net(s, len(x), f) ELSE s
    IN  IF Len(s1.x_window) = s1.window_size
        THEN LET s2 == IF s1.append_predict
                       THEN LET a == window_append(s1, values(x))
                            IN  list2tensor(a, a.x_window)
                       ELSE LET c == copy_append(s1)
                            IN  list2tensor(c, c.x)
                 s3 == net_eval(s2)
             IN  item(net_forward(s3, f))
        ELSE return_placeholder(s1)

\* RollingRegressor._learn_window(x, y)
_learn_window(s, f) ==
    LET s1 == zero_grad(s)
        s2 == net_forward(s1, f)
        s3 == loss_fn(s2, f)
        s4 == backward(s3, f)
    IN  optimizer_step(s4)

\* Mutant: the lazy construction is missing.
Mut_RollingRegressor_learn_one_noinit(s, x, y, f) ==
    LET s2 == window_append(s, values(x))
    IN  IF Len(s2.x_window) = s2.window_size
        THEN LET s3 == list2tensor(s2, s2.x_window)
                 s4 == scalar2tensor(s3, y)
                 s5 == net_train(s4)
             IN  return_self(_learn_window(s5, f))
        ELSE return_self(s2)

\* Mutant: trains whenever the buffer holds at least window_size rows.
Mut_RollingRegressor_learn_one_ge(s, x, y, f) ==
    LET s1 == IF ~s.net.built THEN _init_net(s, len(x), f) ELSE s
        s2 == window_append(s1, values(x))
    IN  IF Len(s2.x_window) >= s2.window_size
        THEN LET s3 == list2tensor(s2, s2.x_window)
                 s4 == scalar2tensor(s3, y)
                 s5 == net_train(s4)
             IN  return_self(_learn_window(s5, f))
        ELSE return_self(s2)

\* Mutant: the row is buffered before the network is built.
Mut_RollingRegressor_learn_one_append_first(s, x, y, f) ==
    LET s1 == window_append(s, values(x))
        s2 == IF ~s1.net.built THEN _init_net(s1, len(x), f) ELSE s1
    IN  IF Len(s2.x_window) = s2.window_size
        THEN LET s3 == list2tensor(s2, s2.x_window)
                 s4 == scalar2tensor(s3, y)
                 s5 == net_train(s4)
             IN  return_self(_learn_window(s5, f))
        ELSE return_self(s2)

\* Mutant: a full buffer takes no further row (the window is capped).
Mut_RollingRegressor_learn_one_capped(s, x, y, f) ==
    LET s1 == IF ~s.net.built THEN _init_net(s, len(x), f) ELSE s
        s2 == IF Len(s1.x_window) < s1.window_size
              THEN window_append(s1, values(x)) ELSE s1
    IN  IF Len(s2.x_window) = s2.window_size
        THEN LET s3 == list2tensor(s2, s2.x_window)
                 s4 == scalar2tensor(s3, y)
                 s5 == net_train(s4)
             IN  return_self(_learn_window(s5, f))
        ELSE return_self(s2)

\* Mutant: the network is put in training mode before the buffer is tested.
Mut_RollingRegressor_learn_one_train_early(s, x, y, f) ==
    LET s1 == IF ~s.net.built THEN _init_net(s, len(x), f) ELSE s
        s2 == net_train(window_append(s1, values(x)))
    IN  IF Len(s2.x_window) = s2.window_size
        THEN LET s3 == list2tensor(s2, s2.x_window)
                 s4 == scalar2tensor(s3, y)
             IN  return_self(_learn_window(s4, f))
        ELSE return_self(s2)

\* Mutant: a sliding window, the oldest row is dropped from an over-full buffer.
Mut_RollingRegressor_learn_one_trim(s, x, y, f) ==
    LET s1 == IF ~s.net.built THEN _init_net(s, len(x), f) ELSE s
        a  == window_append(s1, values(x))
        s2 == IF Len(a.x_window) > a.window_size
              THEN [a EXCEPT !.x_window = Tail(@)] ELSE a
    IN  IF Len(s2.x_window) = s2.window_size
        THEN LET s3 == list2tensor(s2, s2.x_window)
                 s4 == scalar2tensor(s3, y)
                 s5 == net_train(s4)
             IN  return_self(_learn_window(s5, f))
        ELSE return_self(s2)

\* Mutant: a failed conversion or training step takes the appended row back
\* out of the buffer before the exception leaves the call.
Mut_RollingRegressor_learn_one_rollback(s, x, y, f) ==
    LET s1 == IF ~s.net.built THEN _init_net(s, len(x), f) ELSE s
        s2 == window_append(s1, values(x))
    IN  IF Len(s2.x_window) = s2.window_size
        THEN LET s3 == list2tensor(s2, s2.x_window)
                 s4 == scalar2tensor(s3, y)
                 s5 == net_train(s4)
                 s6 == return_self(_learn_window(s5, f))
             IN  IF Ok(s6) \/ ~Ok(s1) THEN s6
                 ELSE [s6 EXCEPT !.x_window = s1.x_window]
        ELSE return_self(s2)

\* RollingRegressor.learn_one(x, y)
RollingRegressor_learn_one(s, x, y, f) ==
    LET s1 == IF ~s.net.built THEN _init_net(s, len(x), f) ELSE s
        s2 == window_append(s1, values(x))
    IN  IF Len(s2.x_window) = s2.window_size
        THEN LET s3 == list2tensor(s2, s2.x_window)
                 s4 == scalar2tensor(s3, y)
                 s5 == net_train(s4)
             IN  return_self(_learn_window(s5, f))
        ELSE return_self(s2)

-----------------------------------------------------------------------------
(* The state machine *)

NoCall == [op |-> "none", x |-> <<>>, y |-> 0, repeat |-> FALSE,
           preLen |-> 0, preBuilt |-> FALSE,
           trace |-> <<>>, err |-> "none", ret |-> 0, retSelf |-> FALSE,
           fwdIn |-> <<>>, fwdMode |-> "none", lossY |-> <<>>]

\* The object's fields and the locals of a call that is about to start
Enter ==
    [net |-> net, optimizer |-> optimizer, x_window |-> x_window,
     window_size |-> window_size, append_predict |-> append_predict,
     n_init |-> hist.n_init,
     x |-> <<>>, y |-> <<>>, y_pred |-> 0, loss |-> 0,
     trace |-> <<>>, err |-> "none", ret |-> 0, retSelf |-> FALSE,
     fwdIn |-> <<>>, fwdMode |-> "none", lossY |-> <<>>]

\* The state after the call op(x, y) that ended in s
Leave(s, op, x, y) ==
    /\ net' = s.net
    /\ optimizer' = s.optimizer
    /\ x_window' = s.x_window
    /\ calls' = calls + 1
    /\ last' = [op |-> op, x |-> values(x), y |-> y,
                repeat |-> (last.op = op /\ last.x = values(x) /\ last.err = "none"),
                preLen |-> Len(x_window), preBuilt |-> net.built,
                trace |-> s.trace, err |-> s.err, ret |-> s.ret,
                retSelf |-> s.retSelf,
                fwdIn |-> s.fwdIn, fwdMode |-> s.fwdMode, lossY |-> s.lossY]
    /\ hist' = [n_init |-> s.n_init,
                first_n |-> IF calls = 0 THEN len(x) ELSE hist.first_n,
                build_errors |-> hist.build_errors
                                   + (IF s.err = "BuildError" THEN 1 ELSE 0)]
    /\ UNCHANGED <<kind, window_size, append_predict>>

Init ==
    /\ kind \in {"Regressor", "RollingRegressor"}
    /\ window_size \in 1 .. MaxWindow
    /\ append_predict \in BOOLEAN
    /\ kind = "Regressor" => window_size = 1 /\ append_predict = FALSE
    /\ net = NoNet
    /\ optimizer = NoOptimizer
    /\ x_window = <<>>
    /\ calls = 0
    /\ last = NoCall
    /\ hist = [n_init |-> 0, first_n |-> 0, build_errors |-> 0]

RegLearnOne ==
    /\ kind = "Regressor"
    /\ calls < MaxCalls
    /\ \E x \in FeatureMaps, a \in LearnArgs :
          Leave(Regressor_learn_one(Enter, x, a[1], a[2]), "learn_one", x, a[1])

RegPredictOne ==
    /\ kind = "Regressor"
    /\ calls < MaxCalls
    /\ \E x \in FeatureMaps, f \in PredictFaults :
          Leave(Regressor_predict_one(Enter, x, f), "predict_one", x, 0)

RollLearnOne ==
    /\ kind = "RollingRegressor"
    /\ calls < MaxCalls
    /\ \E x \in FeatureMaps, a \in LearnArgs :
          Leave(RollingRegressor_learn_one(Enter, x, a[1], a[2]), "learn_one", x, a[1])

RollPredictOne ==
    /\ kind = "RollingRegressor"
    /\ calls < MaxCalls
    /\ \E x \in FeatureMaps, f \in PredictFaults :
          Leave(RollingRegressor_predict_one(Enter, x, f), "predict_one", x, 0)

Next == RegLearnOne \/ RegPredictOne \/ RollLearnOne \/ RollPredictOne

Spec == Init /\ [][Next]_vars

-----------------------------------------------------------------------------
(* Properties *)

InTrace(ev) == \E i \in 1 .. Len(last.trace) : last.trace[i] = ev

Called == calls >= 1
Rolling == kind = "RollingRegressor"
Single == kind = "Regressor"

TrainingEvents == {"train", "zero_grad", "forward", "loss", "backward", "step"}
NoneUses == {"train_on_None", "eval_on_None", "zero_grad_on_None",
             "forward_on_None", "step_on_None"}
NetUses == {"train", "eval", "zero_grad", "forward", "backward", "step"}

\* The events of a complete training cycle, in order
TrainingCycle == <<"train", "zero_grad", "forward", "loss", "backward", "step">>

\* C1: in both adapters the network and the optimizer are constructed at most
\* once over any sequence of calls; construction is attempted only by a call
\* that finds the network missing; when no builder has raised, it is the first
\* call that constructs them, with the number of keys of that call's feature
\* map as input width, and no later call, whatever its width, builds again.
C1_ConstructedOnce ==
    /\ hist.n_init <= 1
    /\ net.built <=> hist.n_init = 1
    /\ optimizer.built <=> net.built
    /\ last.preBuilt => ~InTrace("init")
    /\ (Called /\ hist.build_errors = 0) =>
          /\ net.built
          /\ net.n_features = hist.first_n

\* A call of another width than the one the network was built with has been
\* made on a built network, and the network was built once.
C1_Witness ==
    /\ calls >= 2
    /\ last.preBuilt
    /\ Len(last.x) # net.n_features
    /\ hist.n_init = 1
    /\ hist.build_errors = 0

\* C2: no call uses the network or the optimizer (train, eval, zero_grad,
\* forward, backward, step) while the network is None: every such use in a
\* call is on a built network, preceded by the construction when the call
\* started without one.
C2_ConstructionPrecedesUse ==
    /\ \A i \in 1 .. Len(last.trace) : last.trace[i] \notin NoneUses
    /\ \A i \in 1 .. Len(last.trace) :
          last.trace[i] \in NetUses =>
             /\ net.built
             /\ last.preBuilt \/ \E j \in 1 .. i - 1 : last.trace[j] = "init"

\* The first call on an adapter built the network and ran a whole training cycle.
C2_Witness ==
    /\ ~last.preBuilt
    /\ last.op = "learn_one"
    /\ last.trace[1] = "init"
    /\ InTrace("forward") /\ InTrace("backward") /\ InTrace("step")

\* C3: RollingRegressor.predict_one on a buffer shorter than window_size
\* returns the placeholder 0.0 without a forward pass, whatever append_predict
\* is (unless the builders raised in this call, which then raises).
C3_PlaceholderBeforeFull ==
    (Rolling /\ last.op = "predict_one" /\ last.preLen < window_size
        /\ last.err # "BuildError") =>
       /\ last.err = "none"
       /\ last.ret = Placeholder
       /\ ~InTrace("forward")
       /\ last.fwdIn = <<>>
       /\ Len(x_window) = last.preLen

\* predict_one returned the placeholder on a partly filled buffer of an adapter
\* with append_predict set.
C3_Witness ==
    /\ Rolling /\ append_predict
    /\ last.op = "predict_one"
    /\ last.preLen = 1 /\ window_size = 2
    /\ last.err = "none" /\ last.ret = Placeholder

\* C4: RollingRegressor.learn_one runs a training step exactly when the buffer
\* length after the append equals window_size: then a call that raises nothing
\* ran one cycle train/zero_grad/forward/loss/backward/step, the forward pass on
\* the whole buffer and the loss against the target of this call; on any other
\* call no event of a training step happened.
C4_TrainExactlyWhenFull ==
    (Rolling /\ last.op = "learn_one") =>
       /\ (Len(x_window) = window_size /\ last.err = "none") =>
             /\ SubSeq(last.trace, Len(last.trace) - 5, Len(last.trace)) = TrainingCycle
             /\ Cardinality({i \in 1 .. Len(last.trace) : last.trace[i] = "step"}) = 1
             /\ last.fwdIn = x_window
             /\ last.lossY = <<last.y>>
       /\ Len(x_window) # window_size =>
             \A i \in 1 .. Len(last.trace) : last.trace[i] \notin TrainingEvents
       /\ InTrace("step") => Len(x_window) = window_size

\* A learn_one call filled a window of two rows and trained on it.
C4_Witness ==
    /\ Rolling /\ window_size = 2
    /\ last.op = "learn_one" /\ last.err = "none"
    /\ Len(x_window) = 2
    /\ InTrace("step")

\* The rows of the buffer and the row x can be converted and fed to the network
WellFormed(rows) ==
    \A i \in 1 .. Len(rows) :
       IsNumericRow(rows[i]) /\ Len(rows[i]) = net.n_features

\* C5 (as claimed): RollingRegressor.predict_one without append_predict on a
\* full buffer (of convertible rows, trained on, the forward pass not raising)
\* returns the network's output on a copy of the buffer with the
\* row of the current example appended, and leaves the stored buffer as it was.
C5_PredictOnCopy ==
    (Rolling /\ ~append_predict /\ last.op = "predict_one"
        /\ last.preLen = window_size
        /\ optimizer.steps >= 1
        /\ WellFormed(Append(x_window, last.x))
        /\ last.err # "ForwardError") =>
       /\ last.err = "none"
       /\ last.fwdIn = Append(x_window, last.x)
       /\ last.ret = Forward(net, Append(x_window, last.x))
       /\ Len(x_window) = last.preLen

\* C6 (as claimed): once the buffer of the rolling adapter has reached
\* window_size rows (and the window has been trained on, all rows being
\* convertible), a predict_one call that returns has invoked the network: it
\* does not return the placeholder.
C6_PredictAfterFill ==
    (Rolling /\ last.op = "predict_one" /\ last.preLen >= window_size
        /\ optimizer.steps >= 1
        /\ WellFormed(Append(x_window, last.x))
        /\ last.err = "none") =>
       InTrace("forward")

\* C7: Regressor.predict_one on a built network leaves the trainable parameter,
\* the accumulated gradient and the optimizer as they were, and a predict_one
\* that repeats the input of the predict_one before it returns the same output.
C7_PredictKeepsParameters ==
    [][(Single /\ calls' = calls + 1 /\ last'.op = "predict_one" /\ net.built) =>
          /\ net'.w = net.w
          /\ net'.grad = net.grad
          /\ net'.n_features = net.n_features
          /\ optimizer' = optimizer
          /\ (last'.repeat /\ last'.err = "none") => last'.ret = last.ret]_vars

\* A trained Regressor with a pending gradient answered the same predict_one
\* twice in a row.
C7_Witness ==
    /\ Single
    /\ last.op = "predict_one" /\ last.repeat /\ last.err = "none"
    /\ optimizer.steps >= 1
    /\ net.grad # 0

LearnFailures == {"TypeError", "ValueError", "ForwardError", "ShapeError",
                  "LossError", "BackwardError"}

\* C8 (as claimed): a learn_one call on a built network in which the conversion, the forward pass,
\* the loss or the backward pass raises takes no optimizer step and leaves the
\* network and the optimizer in their state before the call.
C8_FailureLeavesPreCallState ==
    [][(calls' = calls + 1 /\ last'.op = "learn_one" /\ net.built
           /\ last'.err \in LearnFailures) =>
          /\ \A i \in 1 .. Len(last'.trace) : last'.trace[i] # "step"
          /\ net' = net
          /\ optimizer' = optimizer]_vars

\* C8 (amended): such a call takes no optimizer step, and the trainable
\* parameter, the input width and the optimizer's state are those from before
\* the call (those of the fresh network when the call constructed it); in every
\* call an optimizer step directly follows a backward pass that did not raise.
C8_FailureKeepsParameters ==
    [][(calls' = calls + 1 /\ last'.op = "learn_one") =>
          /\ last'.err \in LearnFailures =>
                /\ \A i \in 1 .. Len(last'.trace) : last'.trace[i] # "step"
                /\ optimizer'.steps = optimizer.steps
                /\ net.built =>
                      /\ net'.built
                      /\ net'.w = net.w
                      /\ net'.n_features = net.n_features
                      /\ optimizer' = optimizer
                /\ (~net.built /\ net'.built) =>
                      /\ net'.w = build_fn(Len(last'.x)).w
                      /\ net'.n_features = Len(last'.x)
                      /\ optimizer' = optimizer_fn
          /\ \A i \in 1 .. Len(last'.trace) :
                last'.trace[i] = "step" =>
                   /\ i > 1
                   /\ last'.trace[i - 1] = "backward"
                   /\ last'.err # "BackwardError"]_vars

\* The backward pass of a learn_one raised on a network that had been trained
\* before and had been in evaluation mode.
C8_Witness ==
    /\ last.op = "learn_one"
    /\ last.err = "BackwardError"
    /\ optimizer.steps >= 1
    /\ net.w # 0

\* C9: when the construction raises, the call ends with that error, the
\* network and the optimizer are still missing and the rolling buffer has not
\* received the row of the call; every call that finds the network missing
\* starts with the construction, so the next call attempts it again.
C9_ConstructionFailure ==
    /\ last.err = "BuildError" =>
          /\ ~last.preBuilt
          /\ ~net.built /\ net = NoNet
          /\ optimizer = NoOptimizer
          /\ last.trace = <<"init">>
          /\ Len(x_window) = last.preLen
          /\ x_window = <<>>
    /\ (Called /\ ~last.preBuilt) => last.trace[1] = "init"
    /\ hist.build_errors >= 1 /\ ~net.built => hist.n_init = 0

\* After a call whose construction raised, a later learn_one built the network
\* of the rolling adapter and buffered its row.
C9_Witness ==
    /\ Rolling
    /\ hist.build_errors >= 1
    /\ net.built
    /\ last.op = "learn_one"
    /\ Len(x_window) = 1

\* C10: RollingRegressor.predict_one with append_predict on a full buffer
\* appends the row of the current example to the stored buffer, whose length
\* becomes window_size + 1, and returns the network's output on the grown
\* buffer; no call ever shortens the buffer.
C10_AppendPredictGrowsBuffer ==
    /\ [](  (Rolling /\ append_predict /\ last.op = "predict_one"
               /\ last.preLen = window_size) =>
              /\ Len(x_window) = window_size + 1
              /\ x_window[window_size + 1] = last.x
              /\ last.err = "none" =>
                    /\ last.fwdIn = x_window
                    /\ last.ret = Forward(net, x_window)
                    /\ last.fwdMode = "eval" )
    /\ [][ /\ Len(x_window') >= Len(x_window)
           /\ SubSeq(x_window', 1, Len(x_window)) = x_window ]_vars

\* predict_one with append_predict grew a full window of two rows to three and
\* returned the network's output on them.
C10_Witness ==
    /\ Rolling /\ append_predict /\ window_size = 2
    /\ last.op = "predict_one" /\ last.preLen = 2
    /\ last.err = "none"
    /\ Len(x_window) = 3
    /\ last.ret = Forward(net, x_window)
    /\ last.ret # Placeholder

\* The events of a Regressor.learn_one call that raises nothing, after the
\* construction (if any)
LearnOneEvents == <<"dict2tensor", "scalar2tensor", "train", "zero_grad",
                    "forward", "loss", "backward", "step">>

\* C11: a Regressor.learn_one call that raises nothing runs exactly one
\* training cycle, in the order train(), zero_grad(), forward pass, loss,
\* backward pass, optimizer step (after the construction on a first call and
\* the two conversions), the forward pass on the converted example in training
\* mode and the loss against the target of the call, and it returns self.
C11_OneTrainingCycle ==
    (Single /\ last.op = "learn_one" /\ last.err = "none") =>
       /\ last.trace = (IF last.preBuilt THEN <<>> ELSE <<"init">>) \o LearnOneEvents
       /\ last.fwdIn = <<last.x>>
       /\ last.fwdMode = "train"
       /\ last.lossY = <<last.y>>
       /\ last.retSelf
       /\ optimizer.steps >= 1

\* A second learn_one on a built Regressor ran its cycle and returned self.
C11_Witness ==
    /\ Single
    /\ last.op = "learn_one" /\ last.err = "none"
    /\ last.preBuilt /\ last.retSelf
    /\ optimizer.steps = 2
    /\ InTrace("step")

\* C12 (as claimed): the buffer of the rolling adapter is never trimmed, and a
\* learn_one call made after the buffer reached window_size and was trained on
\* (all rows and the target convertible, nothing raising) still performs a
\* training step, on the grown buffer.
C12_TrainsOnGrowingBuffer ==
    (Rolling /\ last.op = "learn_one" /\ last.preLen >= window_size
        /\ optimizer.steps >= 1
        /\ WellFormed(x_window) /\ last.y # NonNumeric
        /\ last.err = "none") =>
       /\ Len(x_window) = last.preLen + 1
       /\ InTrace("step")
       /\ last.fwdIn = x_window

\* C12 (amended): the buffer is never trimmed: every learn_one call whose
\* construction does not raise appends its row to the end of the buffer; a
\* learn_one call made once the buffer holds window_size rows or more only
\* appends: it runs no step of a training cycle, raises nothing and leaves the
\* network and the optimizer as they were.
C12_AppendsButTrainsNoMore ==
    [][(Rolling /\ calls' = calls + 1 /\ last'.op = "learn_one"
           /\ last'.err # "BuildError") =>
          /\ x_window' = Append(x_window, last'.x)
          /\ Len(x_window) >= window_size =>
                /\ last'.trace = <<>>
                /\ last'.err = "none"
                /\ net' = net
                /\ optimizer' = optimizer]_vars

\* A learn_one call on a buffer that had been filled and trained on appended
\* its row and did not train.
C12_Witness ==
    /\ Rolling
    /\ last.op = "learn_one" /\ last.err = "none"
    /\ last.preLen >= window_size
    /\ Len(x_window) = last.preLen + 1
    /\ WellFormed(x_window)
    /\ optimizer.steps = 1
    /\ ~InTrace("step")

\* C13 (as claimed): a RollingRegressor.learn_one call that returns with the
\* buffer not full appends exactly one row, the values of its feature map in
\* iteration order, to the end of the buffer and leaves the network (its
\* parameter and its mode) and the optimizer as they were.
C13_PureBuffering ==
    [][(Rolling /\ calls' = calls + 1 /\ last'.op = "learn_one"
           /\ IsNumericRow(last'.x)
           /\ last'.err = "none" /\ Len(x_window') # window_size) =>
          /\ x_window' = Append(x_window, last'.x)
          /\ net' = net
          /\ optimizer' = optimizer]_vars

\* C13 (amended): such a call appends exactly that row and returns self; on a
\* built network it does nothing else (no event of a training cycle, network
\* and optimizer as they were); on an adapter without network it first
\* constructs the network, of the width of its feature map, and the optimizer.
C13_BufferingStep ==
    [][(Rolling /\ calls' = calls + 1 /\ last'.op = "learn_one"
           /\ last'.err = "none" /\ Len(x_window') # window_size) =>
          /\ x_window' = Append(x_window, last'.x)
          /\ last'.retSelf
          /\ net.built =>
                /\ last'.trace = <<>>
                /\ net' = net
                /\ optimizer' = optimizer
          /\ ~net.built =>
                /\ last'.trace = <<"init">>
                /\ net' = build_fn(Len(last'.x))
                /\ optimizer' = optimizer_fn]_vars

\* A learn_one call buffered its row on a network that was in evaluation mode
\* and stayed in it.
C13_Witness ==
    /\ Rolling
    /\ last.op = "learn_one" /\ last.err = "none"
    /\ last.preBuilt
    /\ Len(x_window) # window_size
    /\ Len(x_window) = last.preLen + 1
    /\ x_window[Len(x_window)] = last.x
    /\ ~net.training

\* C14: in both adapters a forward pass run by predict_one sees the network in
\* evaluation mode and a forward pass run by learn_one sees it in training
\* mode, whatever the calls before: the call sets the mode itself (eval() or
\* train()) before its forward pass, and leaves the network in that mode.
C14_ModeSetBeforeForward ==
    InTrace("forward") =>
       /\ last.op = "predict_one" =>
             /\ last.fwdMode = "eval"
             /\ \E i, j \in 1 .. Len(last.trace) :
                   i < j /\ last.trace[i] = "eval" /\ last.trace[j] = "forward"
             /\ ~net.training
       /\ last.op = "learn_one" =>
             /\ last.fwdMode = "train"
             /\ \E i, j \in 1 .. Len(last.trace) :
                   i < j /\ last.trace[i] = "train" /\ last.trace[j] = "forward"
             /\ net.training

\* A predict_one on a trained network (left in training mode by learn_one) ran
\* its forward pass in evaluation mode.
C14_Witness ==
    /\ last.op = "predict_one" /\ last.err = "none"
    /\ last.preBuilt
    /\ InTrace("forward")
    /\ last.fwdMode = "eval"
    /\ optimizer.steps >= 1
    /\ calls = 2

\* C15: in the rolling adapter no call shortens the buffer, and an optimizer
\* step is taken only by a learn_one call whose buffer holds exactly
\* window_size rows after the append; hence over any sequence of calls at most
\* one training step is taken, and none once the buffer holds window_size rows
\* or more before the call.
C15_TrainsAtMostOnce ==
    /\ [](Rolling =>
            /\ optimizer.steps <= 1
            /\ Cardinality({i \in 1 .. Len(last.trace) : last.trace[i] = "step"}) <= 1
            /\ InTrace("step") =>
                  /\ last.op = "learn_one"
                  /\ Len(x_window) = window_size
                  /\ last.preLen = window_size - 1
            /\ Len(x_window) > window_size =>
                  \A i \in 1 .. Len(last.trace) :
                     last.trace[i] \notin {"zero_grad", "loss", "backward", "step"})
    /\ [][Rolling =>
            /\ Len(x_window') >= Len(x_window)
            /\ optimizer'.steps >= optimizer.steps
            /\ Len(x_window) >= window_size =>
                  /\ optimizer'.steps = optimizer.steps
                  /\ net'.w = net.w]_vars

\* The one training step was taken, and two learn_one calls later the buffer
\* is over-full and no further step has been taken.
C15_Witness ==
    /\ Rolling /\ window_size = 1
    /\ calls = 3
    /\ last.op = "learn_one" /\ last.err = "none"
    /\ Len(x_window) = 3
    /\ WellFormed(x_window)
    /\ optimizer.steps = 1

\* C16: RollingRegressor.predict_one on a buffer whose length differs from
\* window_size leaves the buffer as it was, also with append_predict; on a
\* built network it leaves the network and the optimizer as they were and
\* uses neither; on an adapter without network its only effect is the
\* construction of the network and the optimizer (or none, when that raises).
C16_PredictOffWindowChangesNothing ==
    [][(Rolling /\ calls' = calls + 1 /\ last'.op = "predict_one"
           /\ Len(x_window) # window_size) =>
          /\ x_window' = x_window
          /\ net.built =>
                /\ net' = net
                /\ optimizer' = optimizer
                /\ last'.trace = <<>>
          /\ ~net.built =>
                \/ /\ last'.err = "none"
                   /\ last'.trace = <<"init">>
                   /\ net' = build_fn(Len(last'.x))
                   /\ optimizer' = optimizer_fn
                \/ /\ last'.err = "BuildError"
                   /\ net' = net
                   /\ optimizer' = optimizer]_vars

\* predict_one with append_predict on an over-full buffer returned the
\* placeholder and did not touch the buffer.
C16_Witness ==
    /\ Rolling /\ append_predict
    /\ last.op = "predict_one" /\ last.err = "none"
    /\ last.preBuilt
    /\ last.preLen > window_size
    /\ Len(x_window) = last.preLen
    /\ last.ret = Placeholder
    /\ optimizer.steps = 1

\* C17: a RollingRegressor.learn_one call whose conversion or training step
\* raises has appended its row before: the buffer is the one from before the
\* call with that row at its end, window_size rows long, and the call took no
\* optimizer step and did not return.
C17_FailedLearnKeepsRow ==
    [][(Rolling /\ calls' = calls + 1 /\ last'.op = "learn_one"
           /\ last'.err \in LearnFailures) =>
          /\ x_window' = Append(x_window, last'.x)
          /\ Len(x_window') = window_size
          /\ ~last'.retSelf
          /\ optimizer'.steps = optimizer.steps]_vars

\* The conversion of a window of two rows of different widths raised, and the
\* buffer holds the row of the failed call.
C17_Witness ==
    /\ Rolling /\ window_size = 2
    /\ last.op = "learn_one"
    /\ last.err = "ValueError"
    /\ Len(x_window) = 2
    /\ x_window[2] = last.x
    /\ Len(x_window[1]) # Len(x_window[2])

====
